---- MODULE Spec2Model ----
(***************************************************************************)
(* Model of backend_app.py: a Flask backend with two POST endpoints,       *)
(* /save_data and /save_suggestion, each appending one row to its own CSV  *)
(* store, and the helper initialize_csv that creates a store lazily.       *)
(*                                                                         *)
(* The filesystem is the only persistent state.  A store file is a record  *)
(* [exists, rows]: what os.path.exists answers and the CSV records of the  *)
(* file, the header row included.  An I/O fault (OSError / IOError) is an  *)
(* input of the operation that can raise it and leaves the file as it was. *)
(***************************************************************************)
EXTENDS Integers, Sequences, FiniteSets, TLC

VARIABLES file, fresh, accepted, last, wk

vars == <<file, fresh, accepted, last, wk>>

\* ------------------------------------------------------------------ bounds

\* Most data rows on disk in the model, both stores together.
MaxRows == 2

\* Concurrent request workers of the interleaved specifications.
NumWorkers == 2

Workers == 1..NumWorkers

\* ----------------------------------------------------------- configuration

Kinds == {"eval", "sugg"}

EVAL_CSV_HEADER ==
    << "researchId", "timestamp", "age", "sex", "renalInputMethod",
       "serumCreatinine", "eGFR", "renalStatus", "fallsHistory",
       "knownMedicationsJson", "otherMedicationsJson", "totalACB",
       "beersAlertsCount", "stoppAlertsCount" >>

SUGGESTIONS_HEADER == << "timestamp", "medicationName", "details", "email" >>

Header(k) == IF k = "eval" THEN EVAL_CSV_HEADER ELSE SUGGESTIONS_HEADER

\* A header some other program wrote: a store that pre-exists the deployment.
LegacyHeader == << "id", "note" >>

\* --------------------------------------------------------------- JSON values

\* A JSON value as Python holds it after get_json(): t is the type, s the
\* text of a string or of a number, a the elements of an array (strings),
\* o the members of an object (a dict: a function from keys to values).
EmptyDict == [key \in {} |-> 0]

Null == [t |-> "null", s |-> "", a |-> <<>>, o |-> EmptyDict]

Str(x) == [t |-> "str", s |-> x, a |-> <<>>, o |-> EmptyDict]

Num(x) == [t |-> "num", s |-> x, a |-> <<>>, o |-> EmptyDict]

Arr(xs) == [t |-> "arr", s |-> "", a |-> xs, o |-> EmptyDict]

Obj(d) == [t |-> "obj", s |-> "", a |-> <<>>, o |-> d]

IsDict(v) == v.t = "obj"

\* dict.get(key, default): the default is used only when the key is absent.
Get(d, key, default) == IF key \in DOMAIN d THEN d[key] ELSE default

\* Python truth value of a JSON value (`not x` is its negation).
Truthy(v) ==
    CASE v.t = "null" -> FALSE
      [] v.t = "str"  -> v.s # ""
      [] v.t = "num"  -> v.s # "0"
      [] v.t = "arr"  -> v.a # <<>>
      [] v.t = "obj"  -> DOMAIN v.o # {}

RECURSIVE JoinQuoted(_, _, _)
JoinQuoted(xs, quote, sep) ==
    IF xs = <<>> THEN ""
    ELSE IF Len(xs) = 1 THEN quote \o xs[1] \o quote
    ELSE quote \o xs[1] \o quote \o sep \o JoinQuoted(Tail(xs), quote, sep)

\* json.dumps of a scalar or of an array of strings.
JsonDumps(v) ==
    CASE v.t = "null" -> "null"
      [] v.t = "str"  -> "\"" \o v.s \o "\""
      [] v.t = "num"  -> v.s
      [] v.t = "arr"  -> "[" \o JoinQuoted(v.a, "\"", ", ") \o "]"
      [] v.t = "obj"  -> "{}"

\* What csv.writer puts in a field: '' for None, the text of a string,
\* str() of anything else.
CsvField(v) ==
    CASE v.t = "null" -> ""
      [] v.t = "str"  -> v.s
      [] v.t = "num"  -> v.s
      [] v.t = "arr"  -> "[" \o JoinQuoted(v.a, "'", ", ") \o "]"
      [] v.t = "obj"  -> "{}"

\* datetime.datetime.now().isoformat(): the clock readings of the model.
Times == {"2026-11-01T16:11:05.000123"}

\* ------------------------------------------------------------ request bodies

\* A request body: json is flask.request.is_json, val is what get_json()
\* returns.
NotJsonBody == [json |-> FALSE, val |-> Null]

JsonBody(v) == [json |-> TRUE, val |-> v]

\* The set of dicts that either lack `key` or map it to one of `vals`.
Field(key, vals) == {EmptyDict} \cup {key :> v : v \in vals}

\* JSON bodies that are not objects: null, an array, a string, a number.
NonObjectValues == {Null, Arr(<<"Aspirin">>), Str("hello"), Num("7")}

\* researchId and timestamp of an evaluation payload: both omitted, both
\* supplied empty (null, ""), both supplied.
EvalIdentityParts ==
    { EmptyDict,
      ("researchId" :> Null) @@ ("timestamp" :> Str("")),
      ("researchId" :> Str("R-001")) @@ ("timestamp" :> Str("2026-10-31T09:30:00")) }

FullClinical ==
    ("age" :> Num("78")) @@ ("sex" :> Str("F")) @@
    ("renalInputMethod" :> Str("egfr")) @@ ("serumCreatinine" :> Null) @@
    ("eGFR" :> Num("45")) @@ ("renalStatus" :> Str("moderate")) @@
    ("fallsHistory" :> Str("yes")) @@
    ("knownMedications" :> Arr(<<"Aspirin", "Amitriptyline">>)) @@
    ("otherMedications" :> Arr(<<>>)) @@
    ("results" :> Obj(("totalACB" :> Num("3")) @@ ("beersAlerts" :> Num("1"))
                      @@ ("stoppAlerts" :> Num("0"))))

\* The clinical part of an evaluation payload: everything, or a results
\* member that is not an object (a string, null).
EvalClinicalParts ==
    { FullClinical,
      "results" :> Str("n/a"),
      ("age" :> Num("78")) @@ ("results" :> Null) }

\* Evaluation payloads: each identity part with no clinical member, and
\* each clinical part with no identity member.
EvalPayloads ==
    {Obj(i) : i \in EvalIdentityParts} \cup {Obj(c) : c \in EvalClinicalParts}

SuggExtraParts ==
    { EmptyDict,
      ("email" :> Str("a@b.org")) @@ ("timestamp" :> Str("2026-10-31T09:30:00")) }

SuggPayloads ==
    { Obj(m @@ d @@ x) :
        m \in Field("medicationName", {Str(""), Str("Aspirin")}),
        d \in Field("details", {Null, Str("ACB score 1")}),
        x \in SuggExtraParts }

Bodies(k) ==
    {NotJsonBody} \cup {JsonBody(v) : v \in NonObjectValues}
    \cup {JsonBody(v) : v \in (IF k = "eval" THEN EvalPayloads ELSE SuggPayloads)}

\* Outcomes of the append's open()/writerow(): no fault, an IOError, any
\* other exception.
WriteOutcomes == {"ok", "ioerror", "error"}

\* ----------------------------------------------------------------- the store

Absent == [exists |-> FALSE, rows |-> <<>>]

Range(seq) == {seq[i] : i \in 1..Len(seq)}

\* Lines 42-44: open(file_path, 'w') truncates or creates the file and the
\* header is its only row; ok = FALSE is an OSError raised by open().
CreateCsv(f, header, ok) ==
    IF ok THEN [exists |-> TRUE, rows |-> <<header>>] ELSE f

\* Mutant: the file is written without asking whether it exists.
InitializeCsv_AlwaysCreate(f, header, ok) == CreateCsv(f, header, ok)

\* Mutant: an existing file gets the header again, after its rows.
InitializeCsv_HeaderAgain(f, header, ok) ==
    IF ~f.exists THEN CreateCsv(f, header, ok)
    ELSE [f EXCEPT !.rows = Append(@, header)]

\* initialize_csv: makedirs, then create the file only when os.path.exists
\* says it is not there.  ok = FALSE is an OSError (makedirs or open), which
\* is caught and only printed.
InitializeCsv(f, header, ok) ==
    IF ~f.exists THEN CreateCsv(f, header, ok) ELSE f

\* final_row = {key: row_data.get(key) for key in HEADER}
FinalRow(row_data, header) ==
    [key \in Range(header) |-> Get(row_data, key, Null)]

\* Mutant: fields without a value are left out of the record.
DictWriterRow_SkipEmpty(final_row, header) ==
    SelectSeq([i \in 1..Len(header) |-> CsvField(Get(final_row, header[i], Null))],
              LAMBDA c : c # "")

\* csv.DictWriter(f, fieldnames=header).writerow(final_row): one field per
\* fieldname, in fieldname order, '' for a missing key.
DictWriterRow(final_row, header) ==
    [i \in 1..Len(header) |-> CsvField(Get(final_row, header[i], Null))]

\* open(path, 'a') + writerow: the row is added after the rows the file
\* has (open in append mode creates a missing file).
AppendCsv(f, header, final_row) ==
    [exists |-> TRUE, rows |-> Append(f.rows, DictWriterRow(final_row, header))]

DataRows(f) == IF f.rows = <<>> THEN <<>> ELSE Tail(f.rows)

\* ---------------------------------------------------------------- responses

Response(status, text) == [status |-> status, text |-> text]

SavedText(k) ==
    IF k = "eval" THEN "Evaluation data saved successfully"
    ELSE "Suggestion saved successfully"

NotJsonText == "Request must be JSON"

InvalidFormatText(k) ==
    IF k = "eval" THEN "Invalid data format" ELSE "Invalid suggestion data format"

MissingFieldsText == "Missing required suggestion fields (medicationName or details)"

StorageText(k) ==
    IF k = "eval" THEN "Could not access data storage"
    ELSE "Could not access suggestion storage"

FileErrorText(k) ==
    IF k = "eval" THEN "Could not save evaluation data due to file error"
    ELSE "Could not save suggestion due to file error"

InternalErrorText == "An internal server error occurred"

\* --------------------------------------------------------------- save_data

\* Mutant: only the results member is looked at.
EvalRaises_ResultsOnly(data) ==
    ~IsDict(Get(data.o, "results", Obj(EmptyDict)))

\* Lines 69-84 raise (AttributeError) when data or data['results'] has no
\* .get, that is when it is not a dict.
EvalRaises(data) ==
    \/ ~IsDict(data)
    \/ ~IsDict(Get(data.o, "results", Obj(EmptyDict)))

\* Lines 69-84: row_data.
EvalRowData(data, nowId, nowTs) ==
    LET d == data.o
        results == Get(d, "results", Obj(EmptyDict)).o
    IN  ("researchId" :> Get(d, "researchId", Str("MISSING_ID_" \o nowId))) @@
        ("timestamp" :> Get(d, "timestamp", Str(nowTs))) @@
        ("age" :> Get(d, "age", Null)) @@
        ("sex" :> Get(d, "sex", Null)) @@
        ("renalInputMethod" :> Get(d, "renalInputMethod", Null)) @@
        ("serumCreatinine" :> Get(d, "serumCreatinine", Null)) @@
        ("eGFR" :> Get(d, "eGFR", Null)) @@
        ("renalStatus" :> Get(d, "renalStatus", Null)) @@
        ("fallsHistory" :> Get(d, "fallsHistory", Null)) @@
        ("knownMedicationsJson" :>
            Str(JsonDumps(Get(d, "knownMedications", Arr(<<>>))))) @@
        ("otherMedicationsJson" :>
            Str(JsonDumps(Get(d, "otherMedications", Arr(<<>>))))) @@
        ("totalACB" :> Get(results, "totalACB", Null)) @@
        ("beersAlertsCount" :> Get(results, "beersAlerts", Null)) @@
        ("stoppAlertsCount" :> Get(results, "stoppAlerts", Null))

\* --------------------------------------------------------- save_suggestion

\* Lines 129-130 raise (AttributeError) when data is not a dict.
SuggRaises(data) == ~IsDict(data)

\* Mutant: details is not looked at.
SuggMissingRequired_NameOnly(data) ==
    ~Truthy(Get(data.o, "medicationName", Null))

\* Line 131: if not med_name or not details: raise ValueError.
SuggMissingRequired(data) ==
    \/ ~Truthy(Get(data.o, "medicationName", Null))
    \/ ~Truthy(Get(data.o, "details", Null))

\* Lines 135-140: row_data.
SuggRowData(data, nowTs) ==
    LET d == data.o
    IN  ("timestamp" :> Get(d, "timestamp", Str(nowTs))) @@
        ("medicationName" :> Get(d, "medicationName", Null)) @@
        ("details" :> Get(d, "details", Null)) @@
        ("email" :> Get(d, "email", Null))

\* ------------------------------------------------- the two handlers' stages

\* The outcome of the stage between initialize_csv and the append: a
\* response (status 400), or status 0 and the final_row to append.
Parsed(status, text, row) == [status |-> status, text |-> text, row |-> row]

\* save_data lines 61-89, save_suggestion lines 120-149.
ParseRequest(k, body, nowId, nowTs) ==
    IF ~body.json THEN Parsed(400, NotJsonText, EmptyDict)
    ELSE IF k = "eval" THEN
        IF EvalRaises(body.val) THEN Parsed(400, InvalidFormatText(k), EmptyDict)
        ELSE Parsed(0, "", FinalRow(EvalRowData(body.val, nowId, nowTs), Header(k)))
    ELSE
        IF SuggRaises(body.val) THEN Parsed(400, InvalidFormatText(k), EmptyDict)
        ELSE IF SuggMissingRequired(body.val)
             THEN Parsed(400, MissingFieldsText, EmptyDict)
        ELSE Parsed(0, "", FinalRow(SuggRowData(body.val, nowTs), Header(k)))

\* Mutant: a fault of the append is answered as a fault of the request.
WriteFaultResponse_ClientError(k, wr) == Response(400, InvalidFormatText(k))

\* The response of an append that raised: lines 103-108 and 164-169.
WriteFaultResponse(k, wr) ==
    IF wr = "ioerror" THEN Response(500, FileErrorText(k))
    ELSE Response(500, InternalErrorText)

\* Mutant: the append is attempted without the re-check.
Recheck_Skipped(k, f) == Response(0, "")

\* Lines 92-94 and 153-155: the existence re-check before the append; a
\* response (status 500), or status 0 to go on.
Recheck(k, f) ==
    IF ~f.exists THEN Response(500, StorageText(k)) ELSE Response(0, "")

\* Lines 96-108 and 157-169: the append and its response; a fault leaves
\* the file as it was.
WriteRow(k, f, row, wr) ==
    IF wr # "ok" THEN [file |-> f, resp |-> WriteFaultResponse(k, wr)]
    ELSE [file |-> AppendCsv(f, Header(k), row),
          resp |-> Response(200, SavedText(k))]

\* Lines 91-108 and 152-169: the existence re-check, then the append.
AppendStage(k, f, row, wr) ==
    LET c == Recheck(k, f)
    IN  IF c.status # 0 THEN [file |-> f, resp |-> c]
        ELSE WriteRow(k, f, row, wr)

\* Mutant: the request is looked at first, and initialize_csv runs only
\* for a request that passed.
Handle_ShapeCheckFirst(k, f, body, nowId, nowTs, initOk, wr) ==
    LET p == ParseRequest(k, body, nowId, nowTs)
    IN  IF p.status # 0
        THEN [file |-> f, resp |-> Response(p.status, p.text)]
        ELSE AppendStage(k, InitializeCsv(f, Header(k), initOk), p.row, wr)

\* A whole request to endpoint k on store file f: initialize_csv first,
\* then the request is looked at, then the append.
Handle(k, f, body, nowId, nowTs, initOk, wr) ==
    LET f1 == InitializeCsv(f, Header(k), initOk)
        p  == ParseRequest(k, body, nowId, nowTs)
    IN  IF p.status # 0
        THEN [file |-> f1, resp |-> Response(p.status, p.text)]
        ELSE AppendStage(k, f1, p.row, wr)

\* -------------------------------------------------------------------- state

\* file[k]     the store file of kind k on disk
\* fresh       the kinds whose store did not exist when the run began
\* accepted[k] the rows of the requests answered 200, in answer order
\* last        the last operation the single-process server completed
\* wk[i]       the request worker i is handling (interleaved workers)

Legacy == [exists |-> TRUE, rows |-> <<LegacyHeader>>]

NoBody == NotJsonBody

NoOp ==
    [op |-> "none", kind |-> "eval", body |-> NoBody,
     resp |-> Response(0, ""), before |-> [k \in Kinds |-> Absent],
     initFailed |-> FALSE]

Idle ==
    [pc |-> "idle", kind |-> "eval", body |-> NoBody, resp |-> Response(0, ""),
     row |-> EmptyDict, initFailed |-> FALSE, sawMissing |-> FALSE,
     appended |-> FALSE]

Init ==
    /\ file \in [Kinds -> {Absent, Legacy}]
    /\ fresh = {k \in Kinds : ~file[k].exists}
    /\ accepted = [k \in Kinds |-> <<>>]
    /\ last = NoOp
    /\ wk = [i \in Workers |-> Idle]

\* ------------------------------------- the single-process server (Spec)

\* Data rows on disk, both stores together.
TotalRows == Len(DataRows(file["eval"])) + Len(DataRows(file["sugg"]))

\* The faults a request to endpoint k can meet: initialize_csv can raise
\* only where it has something to create, the append only where it runs.
InitOutcomes(k) == IF file[k].exists THEN {TRUE} ELSE BOOLEAN

AppendOutcomes(k, body, initOk) ==
    IF /\ ParseRequest(k, body, "", "").status = 0
       /\ InitializeCsv(file[k], Header(k), initOk).exists
    THEN WriteOutcomes ELSE {"ok"}

\* One request to endpoint k, handled from start to response.
Request(k, op, body, nowId, nowTs, initOk, wr) ==
    LET r == Handle(k, file[k], body, nowId, nowTs, initOk, wr)
        p == ParseRequest(k, body, nowId, nowTs)
    IN  /\ r.resp.status = 200 => TotalRows < MaxRows
        /\ file' = [file EXCEPT ![k] = r.file]
        /\ accepted' =
             IF r.resp.status = 200
             THEN [accepted EXCEPT ![k] = Append(@, DictWriterRow(p.row, Header(k)))]
             ELSE accepted
        /\ last' = [op |-> op, kind |-> k, body |-> body, resp |-> r.resp,
                    before |-> file,
                    initFailed |-> ~file[k].exists /\ ~initOk]
        /\ UNCHANGED <<fresh, wk>>

\* POST /save_data
SaveData ==
    \E body \in Bodies("eval"), nowId \in Times, nowTs \in Times :
      \E initOk \in InitOutcomes("eval") :
        \E wr \in AppendOutcomes("eval", body, initOk) :
          Request("eval", "save_data", body, nowId, nowTs, initOk, wr)

\* POST /save_suggestion
SaveSuggestion ==
    \E body \in Bodies("sugg"), nowTs \in Times :
      \E initOk \in InitOutcomes("sugg") :
        \E wr \in AppendOutcomes("sugg", body, initOk) :
          Request("sugg", "save_suggestion", body, nowTs, nowTs, initOk, wr)

\* The __main__ block: initialize_csv on both stores when the server is
\* started locally (the stores outlive the process, so at any time).
Main ==
    \E okEval \in InitOutcomes("eval"), okSugg \in InitOutcomes("sugg") :
        /\ file' = [k \in Kinds |->
                      InitializeCsv(file[k], Header(k),
                                    IF k = "eval" THEN okEval ELSE okSugg)]
        /\ last' = [NoOp EXCEPT !.op = "main", !.before = file,
                                !.initFailed = ~okEval \/ ~okSugg]
        /\ UNCHANGED <<fresh, accepted, wk>>

Next == SaveData \/ SaveSuggestion \/ Main

Spec == Init /\ [][Next]_vars

\* ------------------------- concurrent workers (SpecConc and SpecEnv)

\* Bodies the concurrent workers are given.
ConcBodies(k) ==
    IF k = "eval"
    THEN {NotJsonBody, JsonBody(Obj(EmptyDict))}
    ELSE {JsonBody(Obj(("medicationName" :> Str("Aspirin"))
                       @@ ("details" :> Str("ACB score 1"))))}

InFlight == {i \in Workers : wk[i].pc \notin {"idle", "done"}}

TotalAccepted == Len(accepted["eval"]) + Len(accepted["sugg"])

\* A worker takes a request to endpoint k.
Receive(i) ==
    /\ wk[i].pc \in {"idle", "done"}
    /\ TotalAccepted + Cardinality(InFlight) < MaxRows
    /\ \E k \in Kinds : \E body \in ConcBodies(k) :
         wk' = [wk EXCEPT ![i] = [Idle EXCEPT !.pc = "check", !.kind = k,
                                               !.body = body]]
    /\ UNCHANGED <<file, fresh, accepted, last>>

\* initialize_csv lines 36-41: makedirs and the os.path.exists test; the
\* file is created in a later step only when the test said it is missing
\* and makedirs did not raise.
CheckExists(i) ==
    /\ wk[i].pc = "check"
    /\ \E ok \in InitOutcomes(wk[i].kind) :
         wk' = [wk EXCEPT
                  ![i].pc = IF ~file[wk[i].kind].exists /\ ok
                            THEN "create" ELSE "recheck",
                  ![i].initFailed = ~ok]
    /\ UNCHANGED <<file, fresh, accepted, last>>

\* initialize_csv lines 42-44: open(file_path, 'w') and the header row.
CreateFile(i) ==
    /\ wk[i].pc = "create"
    /\ \E ok \in BOOLEAN :
         /\ file' = [file EXCEPT
                       ![wk[i].kind] = CreateCsv(@, Header(wk[i].kind), ok)]
         /\ wk' = [wk EXCEPT ![i].pc = "recheck", ![i].initFailed = ~ok]
    /\ UNCHANGED <<fresh, accepted, last>>

\* Lines 61-94 / 120-155: the request is parsed (no shared state), then
\* os.path.exists is asked again.
ParseAndRecheck(i) ==
    /\ wk[i].pc = "recheck"
    /\ \E nowId \in Times, nowTs \in Times :
         LET k == wk[i].kind
             p == ParseRequest(k, wk[i].body, nowId, nowTs)
             c == Recheck(k, file[k])
         IN  wk' = [wk EXCEPT ![i] =
                 IF p.status # 0
                 THEN [@ EXCEPT !.pc = "done", !.resp = Response(p.status, p.text)]
                 ELSE IF c.status # 0
                 THEN [@ EXCEPT !.pc = "done", !.resp = c,
                                !.sawMissing = ~file[k].exists]
                 ELSE [@ EXCEPT !.pc = "append", !.row = p.row,
                                !.sawMissing = ~file[k].exists]]
    /\ UNCHANGED <<file, fresh, accepted, last>>

\* Lines 96-108 / 157-169: open(path, 'a'), writerow, the response.
AppendRow(i) ==
    /\ wk[i].pc = "append"
    /\ \E wr \in WriteOutcomes :
         LET k == wk[i].kind
             r == WriteRow(k, file[k], wk[i].row, wr)
         IN  /\ file' = [file EXCEPT ![k] = r.file]
             /\ accepted' =
                  IF r.resp.status = 200
                  THEN [accepted EXCEPT
                          ![k] = Append(@, DictWriterRow(wk[i].row, Header(k)))]
                  ELSE accepted
             /\ wk' = [wk EXCEPT ![i].pc = "done", ![i].resp = r.resp,
                                 ![i].appended = (wr = "ok")]
    /\ UNCHANGED <<fresh, last>>

\* Something outside the server removes a store file.
Vanish ==
    /\ \E k \in Kinds :
         /\ file[k].exists
         /\ file' = [file EXCEPT ![k] = Absent]
    /\ UNCHANGED <<fresh, accepted, last, wk>>

WorkerStep ==
    \E i \in Workers :
        \/ Receive(i)
        \/ CheckExists(i)
        \/ CreateFile(i)
        \/ ParseAndRecheck(i)
        \/ AppendRow(i)

\* A new deployment: no store exists yet.
InitFresh == Init /\ fresh = Kinds

\* Workers interleave; nothing else touches the stores.
SpecConc == InitFresh /\ [][WorkerStep]_vars

NextEnv == WorkerStep \/ Vanish

\* Workers interleave and the stores can be removed under them.
SpecEnv == InitFresh /\ [][NextEnv]_vars

\* ---------------------------------------------------------------- properties

IsPrefix(xs, ys) == Len(xs) <= Len(ys) /\ SubSeq(ys, 1, Len(xs)) = xs

\* How often row r occurs among rows.
Occurrences(r, rows) == Cardinality({i \in 1..Len(rows) : rows[i] = r})

\* The last operation was a request (not a start of the server).
IsRequest == last.op \in {"save_data", "save_suggestion"}

Rejected == IsRequest /\ last.resp.status # 200

\* The body of the last request is a JSON object.
ObjectBody == last.body.json /\ last.body.val.t = "obj"

\* MalformedRequest: the body of the last request is not a JSON object.
Malformed == IsRequest /\ ~ObjectBody

\* The payload of the last request lacks key, or holds null or "" for it.
AbsentOrEmpty(key) ==
    LET d == last.body.val.o
    IN  key \notin DOMAIN d \/ d[key].t = "null" \/ (d[key].t = "str" /\ d[key].s = "")

\* ValidationError: a suggestion object without medicationName or details.
MissingRequired ==
    /\ last.op = "save_suggestion"
    /\ ObjectBody
    /\ AbsentOrEmpty("medicationName") \/ AbsentOrEmpty("details")

\* A fault of the extraction: an evaluation object whose results member
\* is not an object.
ExtractionFault ==
    /\ last.op = "save_data"
    /\ ObjectBody
    /\ "results" \in DOMAIN last.body.val.o
    /\ last.body.val.o["results"].t # "obj"

\* The last request added no data row to its store.
NoRowAdded ==
    DataRows(file[last.kind]) = DataRows(last.before[last.kind])

\* C1: a store that did not exist at the start holds, once it exists, its
\* header row followed by exactly the rows of the accepted submissions, in
\* the order they were accepted; until it exists nothing was accepted.
C1_HeaderInvariant ==
    \A k \in fresh :
        IF file[k].exists
        THEN file[k].rows = <<Header(k)>> \o accepted[k]
        ELSE accepted[k] = <<>>

C1_Witness ==
    \E k \in fresh :
        /\ Len(accepted[k]) >= 2
        /\ accepted[k][1] # accepted[k][2]
        /\ Rejected /\ last.kind = k

\* C2: a suggestion object whose medicationName or details is absent or
\* empty is answered 400 with the reason text, and the suggestions store
\* has the data rows it had before.
C2_RequiredFieldRejection ==
    MissingRequired =>
        /\ last.resp = Response(400, MissingFieldsText)
        /\ NoRowAdded

C2_Witness ==
    /\ MissingRequired
    /\ "details" \notin DOMAIN last.body.val.o
    /\ ~AbsentOrEmpty("medicationName")
    /\ Len(DataRows(last.before["sugg"])) >= 1
    /\ last.resp.status = 400

\* C3: a request to either endpoint whose body is not a JSON object is
\* answered 400 and adds no data row to that endpoint's store.
C3_MalformedRejection ==
    Malformed =>
        /\ last.resp.status = 400
        /\ last.resp.text \in {NotJsonText, InvalidFormatText(last.kind)}
        /\ NoRowAdded

C3_Witness ==
    /\ Malformed
    /\ last.body.json /\ last.body.val.t = "arr"
    /\ Len(DataRows(last.before[last.kind])) >= 1
    /\ last.resp.status = 400

\* C4: every row save_data appended has a non-empty researchId (column 1)
\* and a non-empty timestamp (column 2).
C4_IdAndTimestampNonEmpty ==
    \A n \in 1..Len(accepted["eval"]) :
        accepted["eval"][n][1] # "" /\ accepted["eval"][n][2] # ""

\* The pass-through columns of a kind: the payload member of the same name
\* is written as it is.
PassThrough(k) ==
    IF k = "eval"
    THEN {"age", "sex", "renalInputMethod", "serumCreatinine", "eGFR",
          "renalStatus", "fallsHistory"}
    ELSE {"medicationName", "details", "email"}

\* C5: every row written has one field per column of its header (14 for
\* evaluations, 4 for suggestions); in the row of the last accepted
\* request a pass-through column holds the payload's member of that name,
\* or the empty field when the payload lacks it, and the three results
\* columns are empty when the payload has no results member.
C5_ColumnCompleteness ==
    /\ \A n \in 1..Len(accepted["eval"]) : Len(accepted["eval"][n]) = 14
    /\ \A n \in 1..Len(accepted["sugg"]) : Len(accepted["sugg"][n]) = 4
    /\ \A k \in Kinds : \A n \in 1..Len(DataRows(file[k])) :
           k \in fresh => Len(DataRows(file[k])[n]) = Len(Header(k))
    /\ (IsRequest /\ last.resp.status = 200) =>
          LET k   == last.kind
              d   == last.body.val.o
              row == file[k].rows[Len(file[k].rows)]
          IN  /\ \A c \in 1..Len(Header(k)) :
                    Header(k)[c] \in PassThrough(k) =>
                        row[c] = IF Header(k)[c] \in DOMAIN d
                                 THEN CsvField(d[Header(k)[c]]) ELSE ""
              /\ (k = "eval" /\ "results" \notin DOMAIN d) =>
                    row[12] = "" /\ row[13] = "" /\ row[14] = ""

C5_Witness ==
    /\ last.op = "save_data" /\ last.resp.status = 200
    /\ "age" \notin DOMAIN last.body.val.o
    /\ "results" \notin DOMAIN last.body.val.o
    /\ Len(accepted["sugg"]) >= 1
    /\ accepted["sugg"][1][4] = ""

\* C6: initialize_csv leaves a file that exists as it is, whatever its
\* header: a start of the server changes no existing store, a request
\* keeps the rows its store had as a prefix of the rows it has, and no
\* store ever holds its kind's header row twice.
C6_IdempotentInit ==
    /\ last.op = "main" =>
          \A k \in Kinds : last.before[k].exists => file[k] = last.before[k]
    /\ IsRequest =>
          (last.before[last.kind].exists =>
              IsPrefix(last.before[last.kind].rows, file[last.kind].rows))
    /\ \A k \in Kinds :
          Occurrences(Header(k), file[k].rows) = (IF k \in fresh /\ file[k].exists THEN 1 ELSE 0)

C6_Witness ==
    /\ last.op = "main"
    /\ last.before["eval"] = [exists |-> TRUE, rows |-> <<EVAL_CSV_HEADER>>]
    /\ file["eval"].rows = <<EVAL_CSV_HEADER>>
    /\ last.before["sugg"] = Legacy
    /\ file["sugg"] = Legacy

\* C7: a request whose re-check found the store file missing is answered
\* 500 with the storage error and has not run the append (which would
\* have created the file).
C7_StorageUnavailable ==
    \A i \in Workers :
        (wk[i].pc \in {"append", "done"} /\ wk[i].sawMissing) =>
            /\ wk[i].pc = "done"
            /\ wk[i].resp = Response(500, StorageText(wk[i].kind))
            /\ ~wk[i].appended

C7_Witness ==
    \E i \in Workers :
        /\ wk[i].pc = "done" /\ wk[i].sawMissing /\ wk[i].initFailed
        /\ wk[i].resp.status = 500
        /\ ~file[wk[i].kind].exists

\* C8 as stated: a rejected request is answered 4xx when it is malformed
\* or lacks a required field, and 5xx for every other fault, a fault of
\* the extraction (results is not an object) included; no row is added.
C8_OriginalMapping ==
    Rejected =>
        /\ (Malformed \/ MissingRequired) =>
              (last.resp.status >= 400 /\ last.resp.status < 500)
        /\ ~(Malformed \/ MissingRequired) => last.resp.status >= 500
        /\ NoRowAdded

\* C8 as amended: a rejected request is answered 400 when it is malformed,
\* lacks a required field or faults in the extraction, and 500 otherwise
\* (the store is missing at the re-check, or the append raised); no row
\* is added.
C8_StatusMapping ==
    Rejected =>
        /\ (Malformed \/ MissingRequired \/ ExtractionFault) =>
              last.resp.status = 400
        /\ ~(Malformed \/ MissingRequired \/ ExtractionFault) =>
              /\ last.resp.status = 500
              /\ last.resp.text \in {StorageText(last.kind),
                                     FileErrorText(last.kind), InternalErrorText}
        /\ NoRowAdded

C8_Witness ==
    /\ ExtractionFault
    /\ last.resp = Response(400, "Invalid data format")
    /\ Len(DataRows(last.before["eval"])) >= 1

\* C9 as stated: a request rejected as malformed leaves the filesystem as
\* it was.
C9_OriginalOrdering == Malformed => file = last.before

\* C9 as amended: initialize_csv runs before the request is looked at, so
\* a request rejected as malformed leaves an existing store as it was and
\* turns a missing store into a store holding the header row alone,
\* unless initialize_csv failed; the other store is not touched.
C9_InitBeforeShapeCheck ==
    Malformed =>
        LET k == last.kind
            b == last.before[k]
        IN  /\ b.exists => file[k] = b
            /\ (~b.exists /\ ~last.initFailed) =>
                  file[k] = [exists |-> TRUE, rows |-> <<Header(k)>>]
            /\ (~b.exists /\ last.initFailed) => file[k] = Absent
            /\ \A j \in Kinds \ {k} : file[j] = last.before[j]

C9_Witness ==
    /\ Malformed
    /\ ~last.before[last.kind].exists
    /\ file[last.kind] = [exists |-> TRUE, rows |-> <<Header(last.kind)>>]

\* C10: under any interleaving of workers the rows of the accepted
\* requests stay in the store, in order, after its header: nothing that
\* was accepted is removed.
C10_AppendOnly ==
    \A k \in Kinds : IsPrefix(accepted[k], DataRows(file[k]))

====
